---- MODULE Spec2Model ----
(***************************************************************************)
(* Model of the gifAPI request layer (src/api/main.py): token sessions,    *)
(* the auth guard, the unified GET /gifs resolver and the guarded write    *)
(* handlers.  The database helper (db.db_helper / db.pg_helper) is not     *)
(* part of the sources at hand; its operations are the db_* operators,     *)
(* written from the specification's contracts and from the way main.py     *)
(* calls them.                                                             *)
(***************************************************************************)
EXTENDS Integers, Sequences, FiniteSets, TLC

VARIABLES
    ADMIN_PASSWORD, \* main.py:61, read once from the environment
    now,            \* wall clock, in hours
    sessions,       \* Token Store: token -> expires_at
    issued,         \* tokens the generator has produced so far (they never repeat)
    revoked,        \* token -> how often it was handed to revoke_token (0, 1, 2 = more)
    gifs,           \* Record Store: set of gif rows
    nextId,         \* next id the Record Store assigns
    workers,        \* requests in flight between two store statements
    request,        \* the request handled last
    response        \* and the response it got

vars == <<ADMIN_PASSWORD, now, sessions, issued, revoked, gifs, nextId,
          workers, request, response>>

authVars == <<sessions, issued, revoked>>
gifVars  == <<gifs, nextId>>

(***************************************************************************)
(* Bounds and value sets                                                   *)
(***************************************************************************)
MaxTime      == 26   \* the clock stops here
MaxLoginTime == 1    \* logins happen up to this hour
HoursValid   == 24   \* login: db.create_token(hours_valid=24)

None      == "<None>"          \* Python's None / an absent header or parameter
TokenPool == {"tok1", "tok2"}  \* what the token generator can draw
HeaderValues == {None, ""} \cup TokenPool
Passwords == {"", "hunter2", "wrong"}

NoRequest  == [op |-> "none", arg |-> None, at |-> 0]
NoResponse == [op |-> "none", status |-> 0, token |-> None, expires_at |-> -1,
               id |-> 0, matched |-> FALSE, detail |-> "", ids |-> <<>>,
               labels |-> {}]

\* A response of handler op with the given status and nothing else set.
Reply(op, status) == [NoResponse EXCEPT !.op = op, !.status = status]

\* Python truthiness of an Optional[str]: None and "" are falsy.
Truthy(s) == s # None /\ s # ""

(***************************************************************************)
(* Token Store (db helper)                                                 *)
(***************************************************************************)
\* Tokens the generator may still return: random and unguessable, so never
\* one it returned before nor one a client has already presented for logout.
FreshTokens(given, presented) == TokenPool \ (given \cup DOMAIN presented)

\* create_token(hours_valid): a fresh row expiring hours_valid from now.
db_create_token(sess, t, clock, hours_valid) ==
    [k \in DOMAIN sess \cup {t} |-> IF k = t THEN clock + hours_valid ELSE sess[k]]

\* validate_token: a row exists and its expires_at is in the future.
db_validate_token(sess, clock, t) ==
    t \in DOMAIN sess /\ clock < sess[t]

\* Rows a validation may leave behind: it may purge the expired ones.
db_after_validate(sess, clock) ==
    {sess, [k \in {j \in DOMAIN sess : clock < sess[j]} |-> sess[k]]}

\* revoke_token: delete the row if present.
db_revoke_token(sess, t) ==
    [k \in DOMAIN sess \ {t} |-> sess[k]]

\* get_token_expiry: the stored expiry, expired or not; absent otherwise.
db_get_token_expiry(sess, t) ==
    IF t \in DOMAIN sess THEN sess[t] ELSE -1

(***************************************************************************)
(* Auth handlers                                                           *)
(***************************************************************************)
\* A guard that is content with any non-empty header.
require_auth_any_header(x_auth_token, sess, clock) ==
    Truthy(x_auth_token)

\* The guard's verdict (require_auth and the first line of verify).
require_auth(x_auth_token, sess, clock) ==
    Truthy(x_auth_token) /\ db_validate_token(sess, clock, x_auth_token)

\* The token rows after the guard ran: validate_token is called only for
\* a non-empty header.
GuardSessions(x_auth_token, sess, clock) ==
    IF Truthy(x_auth_token) THEN db_after_validate(sess, clock) ELSE {sess}

\* verify with the expiry comparison dropped: any stored row is accepted.
verify_row_exists(x_auth_token) ==
    /\ request' = [op |-> "verify", arg |-> x_auth_token, at |-> now]
    /\ sessions' = sessions
    /\ IF ~(Truthy(x_auth_token) /\ x_auth_token \in DOMAIN sessions)
       THEN response' = [Reply("verify", 401) EXCEPT !.token = x_auth_token]
       ELSE response' = [Reply("verify", 200) EXCEPT
                            !.token = x_auth_token,
                            !.expires_at = db_get_token_expiry(sessions', x_auth_token)]
    /\ UNCHANGED <<ADMIN_PASSWORD, now, issued, revoked, gifs, nextId, workers>>

\* GET /auth/verify
verify(x_auth_token) ==
    /\ request' = [op |-> "verify", arg |-> x_auth_token, at |-> now]
    /\ sessions' \in GuardSessions(x_auth_token, sessions, now)
    /\ IF ~require_auth(x_auth_token, sessions, now)
       THEN response' = [Reply("verify", 401) EXCEPT !.token = x_auth_token]
       ELSE response' = [Reply("verify", 200) EXCEPT
                            !.token = x_auth_token,
                            !.expires_at = db_get_token_expiry(sessions', x_auth_token)]
    /\ UNCHANGED <<ADMIN_PASSWORD, now, issued, revoked, gifs, nextId, workers>>

\* login with the "not configured" check dropped: the empty password logs in
\* when no admin password is set.
login_unconfigured(password) ==
    /\ now <= MaxLoginTime
    /\ request' = [op |-> "login", arg |-> password, at |-> now]
    /\ IF password # ADMIN_PASSWORD
       THEN /\ response' = Reply("login", 401)
            /\ UNCHANGED authVars
       ELSE \E t \in FreshTokens(issued, revoked) :
            /\ sessions' = db_create_token(sessions, t, now, HoursValid)
            /\ issued' = issued \cup {t}
            /\ response' = [Reply("login", 200) EXCEPT
                               !.token = t,
                               !.expires_at = db_get_token_expiry(sessions', t)]
            /\ UNCHANGED revoked
    /\ UNCHANGED <<ADMIN_PASSWORD, now, gifs, nextId, workers>>

\* POST /auth/login
login(password) ==
    /\ now <= MaxLoginTime
    /\ request' = [op |-> "login", arg |-> password, at |-> now]
    /\ IF ADMIN_PASSWORD = ""
       THEN /\ response' = Reply("login", 500)
            /\ UNCHANGED authVars
       ELSE IF password # ADMIN_PASSWORD
       THEN /\ response' = Reply("login", 401)
            /\ UNCHANGED authVars
       ELSE \E t \in FreshTokens(issued, revoked) :
            /\ sessions' = db_create_token(sessions, t, now, HoursValid)
            /\ issued' = issued \cup {t}
            /\ response' = [Reply("login", 200) EXCEPT
                               !.token = t,
                               !.expires_at = db_get_token_expiry(sessions', t)]
            /\ UNCHANGED revoked
    /\ UNCHANGED <<ADMIN_PASSWORD, now, gifs, nextId, workers>>

\* The revocation count of a token after one more revoke_token call.
Revoke(count, t) ==
    [k \in DOMAIN count \cup {t} |->
        IF k # t THEN count[k]
        ELSE IF t \in DOMAIN count /\ count[t] >= 1 THEN 2 ELSE 1]

\* logout that insists on a live session: an unknown token is an error.
logout_checks_session(x_auth_token) ==
    /\ request' = [op |-> "logout", arg |-> x_auth_token, at |-> now]
    /\ IF ~Truthy(x_auth_token)
       THEN /\ response' = Reply("logout", 400)
            /\ UNCHANGED authVars
       ELSE IF x_auth_token \notin DOMAIN sessions
       THEN /\ response' = [Reply("logout", 401) EXCEPT !.token = x_auth_token]
            /\ revoked' = Revoke(revoked, x_auth_token)
            /\ UNCHANGED <<sessions, issued>>
       ELSE /\ sessions' = db_revoke_token(sessions, x_auth_token)
            /\ revoked' = Revoke(revoked, x_auth_token)
            /\ response' = [Reply("logout", 200) EXCEPT !.token = x_auth_token]
            /\ UNCHANGED issued
    /\ UNCHANGED <<ADMIN_PASSWORD, now, gifs, nextId, workers>>

\* POST /auth/logout
logout(x_auth_token) ==
    /\ request' = [op |-> "logout", arg |-> x_auth_token, at |-> now]
    /\ IF ~Truthy(x_auth_token)
       THEN /\ response' = Reply("logout", 400)
            /\ UNCHANGED authVars
       ELSE /\ sessions' = db_revoke_token(sessions, x_auth_token)
            /\ revoked' = Revoke(revoked, x_auth_token)
            /\ response' = [Reply("logout", 200) EXCEPT !.token = x_auth_token]
            /\ UNCHANGED issued
    /\ UNCHANGED <<ADMIN_PASSWORD, now, gifs, nextId, workers>>

\* Time passes.
Tick ==
    /\ now < MaxTime
    /\ now' = now + 1
    /\ UNCHANGED <<ADMIN_PASSWORD, sessions, issued, revoked, gifs, nextId,
                   workers, request, response>>

InitAuth ==
    /\ ADMIN_PASSWORD \in {"", "hunter2"}
    /\ now = 0
    /\ sessions = [k \in {} |-> 0]
    /\ issued = {}
    /\ revoked = [k \in {} |-> 0]
    /\ gifs = {}
    /\ nextId = 1
    /\ workers = <<>>
    /\ request = NoRequest
    /\ response = NoResponse

NextAuth ==
    \/ \E p \in Passwords : login(p)
    \/ \E t \in HeaderValues : logout(t)
    \/ \E t \in HeaderValues : verify(t)
    \/ Tick

SpecAuth == InitAuth /\ [][NextAuth]_vars

\* The token was handed to revoke_token before.
WasRevoked(t) == t \in DOMAIN revoked

(***************************************************************************)
(* Claims on the token sessions (checked under SpecAuth)                   *)
(***************************************************************************)

\* C2: GET /auth/verify accepts a token if and only if a Session row exists
\* for it and the clock is strictly before the row's expires_at, which login
\* set to the login time plus 24 hours; a token at or past expires_at is
\* rejected although its row is still stored, and a token revoked by logout
\* is rejected at any later time.
C2_AcceptedIffRowAndBeforeExpiry ==
    [][ /\ \A t \in HeaderValues :
            verify(t) =>
              /\ (response'.status = 200) <=>
                    (t \in DOMAIN sessions /\ now < sessions[t])
              /\ response'.status \in {200, 401}
              /\ WasRevoked(t) => response'.status = 401
        /\ \A p \in Passwords :
            (login(p) /\ response'.status = 200) =>
              sessions'[response'.token] = now + 24
      ]_vars

\* C2 witness: a verify arriving exactly at expires_at got 401 while the
\* token's row was still stored.
C2_Witness ==
    /\ request.op = "verify" /\ request.at = now
    /\ response.status = 401
    /\ request.arg \in DOMAIN sessions
    /\ sessions[request.arg] = now

\* C9: login creates a Session row and returns its token only when an admin
\* password is configured and the supplied password equals it; with no admin
\* password configured every password (the empty one too) gets 500; a wrong
\* password gets 401; both failures leave the Token Store unchanged.
C9_LoginOnlyWithConfiguredPassword ==
    [][ \A p \in Passwords :
          login(p) =>
            /\ (response'.status = 200) <=>
                  (ADMIN_PASSWORD # "" /\ p = ADMIN_PASSWORD)
            /\ ADMIN_PASSWORD = "" => response'.status = 500
            /\ (ADMIN_PASSWORD # "" /\ p # ADMIN_PASSWORD) => response'.status = 401
            /\ response'.status # 200 => sessions' = sessions
            /\ response'.status = 200 =>
                  /\ response'.token \in DOMAIN sessions' \ DOMAIN sessions
                  /\ DOMAIN sessions' = DOMAIN sessions \cup {response'.token}
      ]_vars

\* C9 witness: the empty password was tried with no admin password
\* configured and got 500, the Token Store still empty.
C9_Witness ==
    /\ request.op = "login" /\ request.arg = ""
    /\ ADMIN_PASSWORD = ""
    /\ response.status = 500
    /\ DOMAIN sessions = {}

\* C10: logout with a non-empty token always succeeds and removes that
\* token's row only; a second logout with the same token, or a logout with a
\* token that was never issued, leaves the Token Store as it was.
C10_RevokeIdempotent ==
    [][ \A t \in TokenPool :
          logout(t) =>
            /\ response'.status = 200
            /\ t \notin DOMAIN sessions'
            /\ \A k \in DOMAIN sessions \ {t} :
                  k \in DOMAIN sessions' /\ sessions'[k] = sessions[k]
            /\ (WasRevoked(t) \/ t \notin issued) => sessions' = sessions
      ]_vars

\* C10 witness: an issued token was revoked a second time, successfully,
\* while another token's row is still stored.
C10_Witness ==
    /\ request.op = "logout" /\ response.status = 200
    /\ request.arg \in issued
    /\ request.arg \in DOMAIN revoked /\ revoked[request.arg] = 2
    /\ DOMAIN sessions # {}

(***************************************************************************)
(* Record Store (db helper)                                                *)
(***************************************************************************)
MaxId == 2        \* the Record Store hands out ids 1..MaxId
MaxBodiesId == 1  \* ... and ids 1..MaxBodiesId where every body is tried

Urls      == {"u1", "u2"}
Titles    == {"A", "b"}
AnimeNames == {"x"}
CharNames == {"c"}
TagNames  == {"t"}

\* An optional argument: Absent is Python's None, Some(v) a given value.
Absent   == {}
Some(v)  == {v}
Given(o) == o # {}
ValueOf(o) == CHOOSE v \in o : TRUE
Optional(S) == {Absent} \cup {Some(v) : v \in S}

\* What a lookup that finds nothing raises (KeyError).
NoGif == [id |-> 0]

\* get_gif(id): the row, or KeyError.
db_get_gif(store, gif_id) ==
    IF \E g \in store : g.id = gif_id
    THEN CHOOSE g \in store : g.id = gif_id
    ELSE NoGif

\* get_gif_by_url(url): the row, or KeyError.
db_get_gif_by_url(store, url) ==
    IF \E g \in store : g.url = url
    THEN CHOOSE g \in store : g.url = url
    ELSE NoGif

\* The store's unique constraint on url: would a row with this url, other
\* than row gif_id, collide?
UrlTaken(store, url, gif_id) ==
    \E g \in store : g.url = url /\ g.id # gif_id

\* insert_gif: a new row with the next id; a duplicate url is refused.
\* Returns the store, whether the statement went through, and the new id.
db_insert_gif(store, nid, clock, title, url, nsfw, anime, characters, tags) ==
    IF UrlTaken(store, url, 0)
    THEN [ok |-> FALSE, store |-> store, id |-> 0]
    ELSE [ok |-> TRUE, id |-> nid,
          store |-> store \cup {[id |-> nid, title |-> title, url |-> url,
                                 nsfw |-> nsfw, anime |-> anime,
                                 created_at |-> clock,
                                 characters |-> characters, tags |-> tags]}]

\* One row after update_gif: an argument left at None keeps the column.
Updated(g, title, url, nsfw, anime, characters, tags) ==
    [g EXCEPT
        !.title = IF Given(title) THEN ValueOf(title) ELSE @,
        !.url = IF Given(url) THEN ValueOf(url) ELSE @,
        !.nsfw = IF Given(nsfw) THEN ValueOf(nsfw) ELSE @,
        !.anime = IF Given(anime) THEN ValueOf(anime) ELSE @,
        !.characters = IF Given(characters) THEN ValueOf(characters) ELSE @,
        !.tags = IF Given(tags) THEN ValueOf(tags) ELSE @]

\* update_gif(id, ...): rewrites the given columns of row id; no such row
\* changes nothing; a url another row holds is refused.
db_update_gif(store, gif_id, title, url, nsfw, anime, characters, tags) ==
    IF Given(url) /\ UrlTaken(store, ValueOf(url), gif_id)
            /\ db_get_gif(store, gif_id) # NoGif
    THEN [ok |-> FALSE, store |-> store]
    ELSE [ok |-> TRUE,
          store |-> {IF g.id = gif_id
                     THEN Updated(g, title, url, nsfw, anime, characters, tags)
                     ELSE g : g \in store}]

\* delete_gif(id)
db_delete_gif(store, gif_id) == {g \in store : g.id # gif_id}

\* The nsfw mode: "false" hides flagged rows, "only" shows nothing else.
Visible(g, nsfw_mode) ==
    CASE nsfw_mode = "false" -> ~g.nsfw
      [] nsfw_mode = "only"  -> g.nsfw
      [] OTHER               -> TRUE

\* Lower-case of the one-letter texts the model uses.
Lower(s) ==
    CASE s = "A" -> "a"
      [] s = "B" -> "b"
      [] s = "TRUE" -> "true"
      [] s = "Tags" -> "tags"
      [] OTHER   -> s

\* Case-insensitive "title contains q", for texts of at most one letter.
Contains(title, q) == q = "" \/ Lower(q) = Lower(title)

\* The ids of a set of rows in ascending order.
RECURSIVE SortedIds(_)
SortedIds(ids) ==
    IF ids = {} THEN <<>>
    ELSE LET m == CHOOSE i \in ids : \A j \in ids : i <= j
         IN <<m>> \o SortedIds(ids \ {m})

\* search_by_title: the matching rows, by id, limit rows from offset.
db_search_by_title(store, q, nsfw_mode, limit, offset) ==
    LET hits == SortedIds({g.id : g \in {h \in store :
                              Contains(h.title, q) /\ Visible(h, nsfw_mode)}})
        last == IF offset + limit < Len(hits) THEN offset + limit ELSE Len(hits)
    IN SubSeq(hits, offset + 1, last)

(***************************************************************************)
(* Guarded handlers                                                        *)
(***************************************************************************)
\* A JSON body of POST /gifs: title, url and nsfw are required.
PostBodies ==
    [title : Titles, url : Urls, nsfw : BOOLEAN, anime : Optional(AnimeNames),
     characters : Optional(SUBSET CharNames), tags : Optional(SUBSET TagNames)]

\* A JSON body of PATCH /gifs/{id}: every field may be left out.
PatchBodies ==
    [title : Optional(Titles), url : Optional(Urls), nsfw : Optional(BOOLEAN),
     anime : Optional(AnimeNames),
     characters : Optional(SUBSET CharNames), tags : Optional(SUBSET TagNames)]

\* GifIn: anime defaults to None, characters and tags to the empty list.
GifIn(body) ==
    [title |-> body.title, url |-> body.url, nsfw |-> body.nsfw,
     anime |-> IF Given(body.anime) THEN ValueOf(body.anime) ELSE None,
     characters |-> IF Given(body.characters) THEN ValueOf(body.characters) ELSE {},
     tags |-> IF Given(body.tags) THEN ValueOf(body.tags) ELSE {}]

\* GifUpdate: every field defaults to None.
GifUpdate(body) == body

\* A keyword argument taken from an Optional[str] attribute.
Arg(v) == IF v = None THEN Absent ELSE Some(v)

\* The 401 of the guard: nothing but the token rows (a purge) may change.
Deny(op, x_auth_token) ==
    /\ ~require_auth(x_auth_token, sessions, now)
    /\ sessions' \in GuardSessions(x_auth_token, sessions, now)
    /\ request' = [op |-> op, arg |-> x_auth_token, at |-> now]
    /\ response' = [Reply(op, 401) EXCEPT !.token = x_auth_token]
    /\ UNCHANGED <<ADMIN_PASSWORD, now, issued, revoked, gifs, nextId, workers>>

\* The guard let the request through.
Admit(op, x_auth_token) ==
    /\ require_auth(x_auth_token, sessions, now)
    /\ sessions' \in GuardSessions(x_auth_token, sessions, now)
    /\ request' = [op |-> op, arg |-> x_auth_token, at |-> now]
    /\ UNCHANGED <<ADMIN_PASSWORD, now, issued, revoked, workers>>

\* create_or_update_gif without the "if existing" branch: always an insert.
PostWrite_always_insert(store, nid, clock, existing, payload) ==
    LET ins == db_insert_gif(store, nid, clock, payload.title, payload.url,
                             payload.nsfw, payload.anime,
                             payload.characters, payload.tags)
    IN  IF ins.ok
        THEN [store |-> ins.store, nextId |-> nid + 1,
              response |-> [Reply("create_or_update_gif", 201) EXCEPT
                               !.id = ins.id]]
        ELSE [store |-> store, nextId |-> nid,
              response |-> Reply("create_or_update_gif", 400)]

\* create_or_update_gif after its lookup: existing is what get_gif_by_url
\* returned.  Gives the store, the next id and the response.
PostWrite(store, nid, clock, existing, payload) ==
    IF existing # NoGif
    THEN LET upd == db_update_gif(store, existing.id, Some(payload.title), Absent,
                                  Some(payload.nsfw), Arg(payload.anime),
                                  Some(payload.characters), Some(payload.tags))
         IN  IF upd.ok /\ db_get_gif(upd.store, existing.id) # NoGif
             THEN [store |-> upd.store, nextId |-> nid,
                   response |-> [Reply("create_or_update_gif", 201) EXCEPT
                                    !.id = existing.id, !.matched = TRUE]]
             ELSE [store |-> upd.store, nextId |-> nid,
                   response |-> [Reply("create_or_update_gif", 400) EXCEPT
                                    !.matched = TRUE]]
    ELSE LET ins == db_insert_gif(store, nid, clock, payload.title, payload.url,
                                  payload.nsfw, payload.anime,
                                  payload.characters, payload.tags)
         IN  IF ins.ok
             THEN [store |-> ins.store, nextId |-> nid + 1,
                   response |-> [Reply("create_or_update_gif", 201) EXCEPT
                                    !.id = ins.id]]
             ELSE [store |-> store, nextId |-> nid,
                   response |-> Reply("create_or_update_gif", 400)]

\* update_gif after its existence check.
PatchWrite(store, gif_id, payload) ==
    LET upd == db_update_gif(store, gif_id, payload.title, payload.url,
                             payload.nsfw, payload.anime,
                             payload.characters, payload.tags)
    IN  IF upd.ok /\ db_get_gif(upd.store, gif_id) # NoGif
        THEN [store |-> upd.store,
              response |-> [Reply("update_gif", 200) EXCEPT !.id = gif_id]]
        ELSE [store |-> upd.store, response |-> Reply("update_gif", 500)]

\* POST /gifs with an accepted token, handled in one go.
create_or_update_gif_body(x_auth_token, body) ==
    /\ Admit("create_or_update_gif", x_auth_token)
    /\ nextId <= MaxBodiesId \/ db_get_gif_by_url(gifs, body.url) # NoGif
    /\ LET out == PostWrite(gifs, nextId, now,
                            db_get_gif_by_url(gifs, body.url), GifIn(body))
       IN  /\ gifs' = out.store
           /\ nextId' = out.nextId
           /\ response' = out.response

\* POST /gifs
create_or_update_gif(x_auth_token) ==
    \/ Deny("create_or_update_gif", x_auth_token)
    \/ \E body \in PostBodies : create_or_update_gif_body(x_auth_token, body)

\* PATCH /gifs/{gif_id} with an accepted token, handled in one go.
update_gif_body(x_auth_token, gif_id, body) ==
    /\ Admit("update_gif", x_auth_token)
    /\ IF db_get_gif(gifs, gif_id) = NoGif
       THEN /\ response' = Reply("update_gif", 404)
            /\ UNCHANGED gifVars
       ELSE LET out == PatchWrite(gifs, gif_id, GifUpdate(body))
            IN  /\ gifs' = out.store
                /\ response' = out.response
                /\ UNCHANGED nextId

\* PATCH /gifs/{gif_id}
update_gif(x_auth_token, gif_id) ==
    \/ Deny("update_gif", x_auth_token)
    \/ \E body \in PatchBodies : update_gif_body(x_auth_token, gif_id, body)

\* DELETE /gifs/{gif_id}
delete_gif(x_auth_token, gif_id) ==
    \/ Deny("delete_gif", x_auth_token)
    \/ /\ Admit("delete_gif", x_auth_token)
       /\ IF db_get_gif(gifs, gif_id) = NoGif
          THEN /\ response' = Reply("delete_gif", 404)
               /\ UNCHANGED gifVars
          ELSE /\ gifs' = db_delete_gif(gifs, gif_id)
               /\ response' = [Reply("delete_gif", 204) EXCEPT !.id = gif_id]
               /\ UNCHANGED nextId

\* GET /admin/gifs
admin_list_gifs(x_auth_token, q, nsfw, limit, offset) ==
    \/ Deny("admin_list_gifs", x_auth_token)
    \/ /\ Admit("admin_list_gifs", x_auth_token)
       /\ response' = [Reply("admin_list_gifs", 200) EXCEPT
                          !.ids = db_search_by_title(gifs, IF Truthy(q) THEN q ELSE "",
                                                     nsfw, limit, offset)]
       /\ UNCHANGED gifVars

\* The Token Store as the write handlers may find it: after one login at
\* hour 0, with the token live, expired but still stored, or revoked.
TokenStores ==
    { [now |-> 0, sessions |-> [k \in {"tok1"} |-> HoursValid],
       revoked |-> [k \in {} |-> 0]],
      [now |-> HoursValid, sessions |-> [k \in {"tok1"} |-> HoursValid],
       revoked |-> [k \in {} |-> 0]],
      [now |-> 0, sessions |-> [k \in {} |-> 0],
       revoked |-> [k \in {"tok1"} |-> 1]] }

InitBodies ==
    /\ ADMIN_PASSWORD = "hunter2"
    /\ \E ts \in TokenStores :
        /\ now = ts.now
        /\ sessions = ts.sessions
        /\ revoked = ts.revoked
    /\ issued = {"tok1"}
    /\ gifs = {}
    /\ nextId = 1
    /\ workers = <<>>
    /\ request = NoRequest
    /\ response = NoResponse

GifIds == 1..MaxId

NextBodies ==
    \/ \E t \in HeaderValues : create_or_update_gif(t)
    \/ \E t \in HeaderValues, i \in 1..MaxBodiesId : update_gif(t, i)
    \/ \E t \in HeaderValues, i \in 1..MaxBodiesId : delete_gif(t, i)
    \/ \E t \in HeaderValues, q \in {None, "a"}, m \in {"true", "false"} :
          admin_list_gifs(t, q, m, 50, 0)

\* One worker at a time, every request handled to completion.
SpecBodies == InitBodies /\ [][NextBodies]_vars

(***************************************************************************)
(* Concurrent requests: the handlers statement by statement                *)
(***************************************************************************)
Workers == {"w1", "w2"}

\* Each worker sends its own title, so that a row tells who wrote it last.
TitleOf(w) == IF w = "w1" THEN "A" ELSE "b"

Idle == [pc |-> "idle", id |-> 0, token |-> None, body |-> <<>>]

\* The bodies the concurrent workers send: a title and a url for POST, at
\* most a new url for PATCH.
WorkerPostBodies(w) ==
    {b \in PostBodies : /\ b.title = TitleOf(w) /\ ~b.nsfw
                        /\ b.anime = Absent /\ b.characters = Absent
                        /\ b.tags = Absent}
WorkerPatchBodies(w) ==
    {b \in PatchBodies : /\ b.title \in {Absent, Some(TitleOf(w))}
                         /\ Given(b.title) = ~Given(b.url)
                         /\ b.nsfw = Absent /\ b.anime = Absent
                         /\ b.characters = Absent /\ b.tags = Absent}

\* Inserts that workers between lookup and write are about to make.
PendingInserts == Cardinality({w \in Workers :
                                 workers[w].pc = "post" /\ workers[w].id = 0})

\* The guard passed and the handler ran its first store statement; the
\* request stays in flight as state st.
Start(w, x_auth_token, st) ==
    /\ require_auth(x_auth_token, sessions, now)
    /\ sessions' \in GuardSessions(x_auth_token, sessions, now)
    /\ workers' = [workers EXCEPT ![w] = st]
    /\ UNCHANGED <<ADMIN_PASSWORD, now, issued, revoked, gifs, nextId,
                   request, response>>

\* The handler of worker w responds.
Finish(w, op, resp) ==
    /\ request' = [op |-> op, arg |-> workers[w].token, at |-> now]
    /\ response' = resp
    /\ workers' = [workers EXCEPT ![w] = Idle]
    /\ UNCHANGED <<ADMIN_PASSWORD, now, sessions, issued, revoked>>

\* POST /gifs up to db.get_gif_by_url (main.py:247)
post_lookup(w, x_auth_token, body) ==
    /\ workers[w].pc = "idle"
    /\ \/ Deny("create_or_update_gif", x_auth_token)
       \/ /\ db_get_gif_by_url(gifs, body.url) # NoGif
             \/ nextId + PendingInserts <= MaxId
          /\ Start(w, x_auth_token,
                   [pc |-> "post", id |-> db_get_gif_by_url(gifs, body.url).id,
                    token |-> x_auth_token, body |-> body])

\* POST /gifs from "if existing" on (main.py:251-275)
post_write(w) ==
    /\ workers[w].pc = "post"
    /\ LET out == PostWrite(gifs, nextId, now, [id |-> workers[w].id],
                            GifIn(workers[w].body))
       IN  /\ gifs' = out.store
           /\ nextId' = out.nextId
           /\ Finish(w, "create_or_update_gif", out.response)

\* PATCH /gifs/{gif_id} up to the existence check (main.py:291-294)
patch_lookup(w, x_auth_token, gif_id, body) ==
    /\ workers[w].pc = "idle"
    /\ \/ Deny("update_gif", x_auth_token)
       \/ /\ db_get_gif(gifs, gif_id) = NoGif
          /\ Admit("update_gif", x_auth_token)
          /\ response' = Reply("update_gif", 404)
          /\ UNCHANGED gifVars
       \/ /\ db_get_gif(gifs, gif_id) # NoGif
          /\ Start(w, x_auth_token,
                   [pc |-> "patch", id |-> gif_id, token |-> x_auth_token,
                    body |-> body])

\* PATCH /gifs/{gif_id}: db.update_gif and the final db.get_gif (main.py:297-306)
patch_write(w) ==
    /\ workers[w].pc = "patch"
    /\ LET out == PatchWrite(gifs, workers[w].id, GifUpdate(workers[w].body))
       IN  /\ gifs' = out.store
           /\ UNCHANGED nextId
           /\ Finish(w, "update_gif", out.response)

\* DELETE /gifs/{gif_id} up to the existence check (main.py:311-314)
delete_lookup(w, x_auth_token, gif_id) ==
    /\ workers[w].pc = "idle"
    /\ \/ Deny("delete_gif", x_auth_token)
       \/ /\ db_get_gif(gifs, gif_id) = NoGif
          /\ Admit("delete_gif", x_auth_token)
          /\ response' = Reply("delete_gif", 404)
          /\ UNCHANGED gifVars
       \/ /\ db_get_gif(gifs, gif_id) # NoGif
          /\ Start(w, x_auth_token,
                   [pc |-> "delete", id |-> gif_id, token |-> x_auth_token,
                    body |-> <<>>])

\* DELETE /gifs/{gif_id}: db.delete_gif (main.py:315-316)
delete_write(w) ==
    /\ workers[w].pc = "delete"
    /\ gifs' = db_delete_gif(gifs, workers[w].id)
    /\ UNCHANGED nextId
    /\ Finish(w, "delete_gif",
              [Reply("delete_gif", 204) EXCEPT !.id = workers[w].id])

\* The Record Store at start: empty, or holding a row inserted earlier.
InitialStores ==
    { [gifs |-> {}, nextId |-> 1],
      [gifs |-> db_insert_gif({}, 1, 0, "A", "u1", FALSE, None, {}, {}).store,
       nextId |-> 2] }

Init ==
    /\ ADMIN_PASSWORD = "hunter2"
    /\ \E ts \in TokenStores :
        /\ now = ts.now
        /\ sessions = ts.sessions
        /\ revoked = ts.revoked
    /\ issued = {"tok1"}
    /\ \E st \in InitialStores :
        /\ gifs = st.gifs
        /\ nextId = st.nextId
    /\ workers = [w \in Workers |-> Idle]
    /\ request = NoRequest
    /\ response = NoResponse

Next ==
    \/ \E w \in Workers, t \in HeaderValues :
          \E b \in WorkerPostBodies(w) : post_lookup(w, t, b)
    \/ \E w \in Workers : post_write(w)
    \/ \E w \in Workers, t \in HeaderValues, i \in GifIds :
          \E b \in WorkerPatchBodies(w) : patch_lookup(w, t, i, b)
    \/ \E w \in Workers : patch_write(w)
    \/ \E w \in Workers, t \in HeaderValues, i \in GifIds : delete_lookup(w, t, i)
    \/ \E w \in Workers : delete_write(w)
    \/ \E t \in HeaderValues, q \in {None, "a"}, m \in {"true", "false"} :
          admin_list_gifs(t, q, m, 50, 0)

Spec == Init /\ [][Next]_vars

(***************************************************************************)
(* Claims on the guarded handlers                                          *)
(***************************************************************************)
GuardedOps == {"create_or_update_gif", "update_gif", "delete_gif", "admin_list_gifs"}

\* The header is absent, or no live Session row stands behind it.
Unauthorized(t) == t = None \/ ~(t \in DOMAIN sessions /\ now < sessions[t])

\* C1: a guarded operation (POST /gifs, PATCH /gifs/{id}, DELETE /gifs/{id},
\* GET /admin/gifs) called without X-Auth-Token or with a token that is
\* unknown, revoked or expired ends in 401 and leaves the Record Store as it
\* was, whether or not the addressed record exists.
C1_UnauthorizedLeavesStore ==
    [][ (request'.op \in GuardedOps /\ Unauthorized(request'.arg)) =>
          /\ response'.status = 401
          /\ response'.op = request'.op
          /\ gifs' = gifs
          /\ nextId' = nextId
      ]_vars

\* C1 witness: a DELETE of an existing record with an expired token, whose
\* row is still stored, got 401 and the record is still there.
C1_Witness ==
    /\ request.op = "delete_gif" /\ request.arg = "tok1"
    /\ response.status = 401
    /\ "tok1" \in DOMAIN sessions /\ now >= sessions["tok1"]
    /\ gifs # {}

UniqueUrls == \A g, h \in gifs : (g.url = h.url \/ g.id = h.id) => g = h

\* Worker w answers its POST (PATCH) in this step.
PostAnswers(w)  == workers[w].pc = "post"  /\ workers'[w].pc = "idle"
PatchAnswers(w) == workers[w].pc = "patch" /\ workers'[w].pc = "idle"

\* C3: under every interleaving of concurrent POST /gifs and PATCH
\* /gifs/{id} requests no two records share a url.  A POST whose url matched
\* a record updates that record and leaves the record count unchanged; a
\* POST or PATCH that lost the check-then-write race on a url gets a failure
\* response and changes nothing.
C3_UrlUnique ==
    /\ UniqueUrls
    /\ [][ /\ UniqueUrls'
           /\ \A w \in Workers :
               PostAnswers(w) =>
                 LET url == workers[w].body.url
                     found == workers[w].id
                 IN  /\ found # 0 => Cardinality(gifs') = Cardinality(gifs)
                     /\ (found # 0 /\ db_get_gif(gifs, found) # NoGif) =>
                           /\ response'.status \in {200, 201}
                           /\ db_get_gif(gifs', found).title = workers[w].body.title
                           /\ db_get_gif(gifs', found).url = db_get_gif(gifs, found).url
                     /\ (found = 0 /\ UrlTaken(gifs, url, 0)) =>
                           /\ response'.status >= 400
                           /\ gifs' = gifs
                     /\ (found = 0 /\ ~UrlTaken(gifs, url, 0)) =>
                           /\ response'.status = 201
                           /\ Cardinality(gifs') = Cardinality(gifs) + 1
           /\ \A w \in Workers :
               (PatchAnswers(w) /\ Given(workers[w].body.url)
                  /\ UrlTaken(gifs, ValueOf(workers[w].body.url), workers[w].id)) =>
                 /\ response'.status >= 400
                 /\ gifs' = gifs
         ]_vars

\* C3 witness: a POST that found no record for its url at lookup time
\* answered 400 because another request had stored that url meanwhile.
C3_Witness ==
    /\ request.op = "create_or_update_gif"
    /\ response.status = 400 /\ ~response.matched
    /\ Cardinality(gifs) = 1
    /\ \E w \in Workers : workers[w].pc = "idle" /\ request.arg = "tok1"

\* C4: an authorized POST /gifs answers 201 when it inserted a record and
\* 200 when its url matched a record, which it updated.
C4_Created201Updated200 ==
    (request.op = "create_or_update_gif" /\ response.status \in {200, 201}) =>
        response.status = IF response.matched THEN 200 ELSE 201

\* The record after an update follows the body: a field given is stored, a
\* field left out keeps its value.
FieldsFollow(old, new, body, fields) ==
    \A f \in fields :
        new[f] = IF Given(body[f]) THEN ValueOf(body[f]) ELSE old[f]

\* C5: in every update of an existing record, by PATCH /gifs/{id} and by
\* the upsert path of POST /gifs alike, a field the request leaves out keeps
\* its stored value and a field it gives (an empty list included) replaces it.
C5_OmittedKeptGivenStored ==
    [][ /\ \A i \in 1..MaxBodiesId : \A b \in PatchBodies :
            (update_gif_body("tok1", i, b) /\ response'.status = 200) =>
              FieldsFollow(db_get_gif(gifs, i), db_get_gif(gifs', i), b,
                           {"title", "url", "nsfw", "anime", "characters", "tags"})
        /\ \A b \in PostBodies :
            (create_or_update_gif_body("tok1", b) /\ response'.matched
               /\ response'.status \in {200, 201}) =>
              FieldsFollow(db_get_gif_by_url(gifs, b.url),
                           db_get_gif_by_url(gifs', b.url),
                           [b EXCEPT !.title = Some(@), !.nsfw = Some(@)],
                           {"title", "nsfw", "anime", "characters", "tags"})
      ]_vars

(***************************************************************************)
(* GET /gifs: the unified resolver                                         *)
(***************************************************************************)
MaxRows == 7   \* rows the queried store is drawn from

\* The rows a queried store is drawn from: row i has its own anime and
\* character label (row 4 has no anime), the first two carry the tag "t",
\* every third is nsfw.
LabelOf == <<"naruto", "bleach", "trigun", "akira", "monster", "gintama",
             "berserk", "claymore", "dororo", "baccano">>
UrlOf == <<"u1", "u2", "u3", "u4", "u5", "u6", "u7", "u8", "u9", "u10">>
Row(i) ==
    [id |-> i, title |-> IF i % 2 = 1 THEN "A" ELSE "b", url |-> UrlOf[i],
     nsfw |-> (i % 3 = 0), anime |-> IF i = 4 THEN None ELSE LabelOf[i],
     created_at |-> 0,
     characters |-> {LabelOf[i]}, tags |-> IF i <= 2 THEN {"t"} ELSE {}]
QueryStores == {{Row(i) : i \in S} : S \in SUBSET (1..MaxRows)}

\* The query strings tried.
Requests ==
    [op : {"unified_get_gifs"}, at : {0}, arg : {None},
     q : {None, "", "a"}, tag : {None, "", "t"},
     anime : {None, "", "naruto", "trigun"},
     character : {None, "", "trigun"},
     list : {None, "Tags", "x"},
     nsfw : {"false", "TRUE", "only", "maybe"},
     page : {[limit |-> 50, offset |-> 0], [limit |-> 1, offset |-> 1]}]

\* The rows a filter selects under an nsfw mode.
RowsByTag(store, tag, nsfw_mode) ==
    {g \in store : tag \in g.tags /\ Visible(g, nsfw_mode)}
RowsByAnime(store, anime, nsfw_mode) ==
    {g \in store : g.anime = anime /\ Visible(g, nsfw_mode)}
RowsByCharacter(store, character, nsfw_mode) ==
    {g \in store : character \in g.characters /\ Visible(g, nsfw_mode)}

\* get_all_tags: the distinct tag names under the nsfw mode.
db_get_all_tags(store, nsfw_mode) ==
    UNION {g.tags : g \in {h \in store : Visible(h, nsfw_mode)}}

\* The distinct anime / character labels of the store, any nsfw flag.
AnimeLabels(store) == {g.anime : g \in store} \ {None}
CharacterLabels(store) == UNION {g.characters : g \in store}

\* suggest_anime / suggest_character: up to limit labels of the universe.
\* Which ones depends on the similarity metric, left open here.
db_suggest(universe, limit) ==
    {S \in SUBSET universe : Cardinality(S) <= limit}

\* A successful pick: one of the rows, any of them.
Picked(rows) ==
    {[Reply("unified_get_gifs", 200) EXCEPT !.detail = "gif", !.ids = <<g.id>>]
        : g \in rows}

\* A 404 carrying suggestions.
NotFoundSuggesting(suggestions) ==
    {[Reply("unified_get_gifs", 404) EXCEPT !.detail = "suggestions", !.labels = S]
        : S \in suggestions}

\* The "except KeyError" of the filtered pick without the limit: every
\* label of the universe may be suggested.
filter_miss_unlimited(store, anime, character) ==
    IF Truthy(anime)
    THEN NotFoundSuggesting(db_suggest(AnimeLabels(store),
                                       Cardinality(AnimeLabels(store))))
    ELSE IF Truthy(character)
    THEN NotFoundSuggesting(db_suggest(CharacterLabels(store),
                                       Cardinality(CharacterLabels(store))))
    ELSE {[Reply("unified_get_gifs", 500) EXCEPT !.detail = "KeyError"]}

\* The "except KeyError" of the filtered pick (main.py:208-227): suggestions
\* for anime and character; otherwise the KeyError is raised again and
\* leaves the handler, which the framework answers with 500.
filter_miss(store, anime, character) ==
    IF Truthy(anime)
    THEN NotFoundSuggesting(db_suggest(AnimeLabels(store), 5))
    ELSE IF Truthy(character)
    THEN NotFoundSuggesting(db_suggest(CharacterLabels(store), 5))
    ELSE {[Reply("unified_get_gifs", 500) EXCEPT !.detail = "KeyError"]}

\* The filtered pick (main.py:201-207): the first non-empty filter decides.
filtered_pick(store, tag, anime, character, nsfw_mode) ==
    LET rows == IF Truthy(tag) THEN RowsByTag(store, tag, nsfw_mode)
                ELSE IF Truthy(anime) THEN RowsByAnime(store, anime, nsfw_mode)
                ELSE RowsByCharacter(store, character, nsfw_mode)
    IN  IF rows # {} THEN Picked(rows) ELSE filter_miss(store, anime, character)

\* The q check looking at the tag only.
q_conflict_tag_only(tag, anime, character) ==
    Truthy(tag)

\* any([tag, anime, character]) (main.py:189)
q_conflict(tag, anime, character) ==
    Truthy(tag) \/ Truthy(anime) \/ Truthy(character)

\* filters_set (main.py:195)
filters_set(tag, anime, character) ==
    {f \in {"tag", "anime", "character"} :
        Truthy([tag |-> tag, anime |-> anime, character |-> character][f])}

\* nsfw_mode = (nsfw or "false").lower() (main.py:175)
NsfwMode(nsfw) == Lower(IF Truthy(nsfw) THEN nsfw ELSE "false")

BadRequest(detail) == {[Reply("unified_get_gifs", 400) EXCEPT !.detail = detail]}

\* unified_get_gifs: the responses the handler may give.
Resolve(store, q, tag, anime, character, list, nsfw, limit, offset) ==
    LET nsfw_mode == NsfwMode(nsfw) IN
    IF nsfw_mode \notin {"false", "true", "only"}
    THEN BadRequest("nsfw")
    ELSE IF list # None
    THEN IF Lower(list) = "tags"
         THEN {[Reply("unified_get_gifs", 200) EXCEPT
                   !.detail = "tags", !.labels = db_get_all_tags(store, nsfw_mode)]}
         ELSE BadRequest("list")
    ELSE IF q # None
    THEN IF q_conflict(tag, anime, character)
         THEN BadRequest("q or filter")
         ELSE {[Reply("unified_get_gifs", 200) EXCEPT
                   !.detail = "search",
                   !.ids = db_search_by_title(store, q, nsfw_mode, limit, offset)]}
    ELSE IF Cardinality(filters_set(tag, anime, character)) > 1
    THEN BadRequest("one filter")
    ELSE IF filters_set(tag, anime, character) # {}
    THEN filtered_pick(store, tag, anime, character, nsfw_mode)
    ELSE IF {g \in store : Visible(g, nsfw_mode)} # {}
    THEN Picked({g \in store : Visible(g, nsfw_mode)})
    ELSE {[Reply("unified_get_gifs", 404) EXCEPT !.detail = "no gifs in database"]}

\* GET /gifs
unified_get_gifs ==
    /\ request.op = "unified_get_gifs"
    /\ response = NoResponse
    /\ response' \in Resolve(gifs, request.q, request.tag, request.anime,
                             request.character, request.list, request.nsfw,
                             request.page.limit, request.page.offset)
    /\ UNCHANGED <<ADMIN_PASSWORD, now, sessions, issued, revoked, gifs, nextId,
                   workers, request>>

\* A store and one query against it.
InitQuery ==
    /\ ADMIN_PASSWORD = "hunter2"
    /\ now = 0
    /\ sessions = [k \in {} |-> 0]
    /\ issued = {}
    /\ revoked = [k \in {} |-> 0]
    /\ gifs \in QueryStores
    /\ nextId = MaxRows + 1
    /\ workers = <<>>
    /\ request \in Requests
    /\ response = NoResponse

NextQuery == unified_get_gifs

SpecQuery == InitQuery /\ [][NextQuery]_vars

(***************************************************************************)
(* Claims on GET /gifs (checked under SpecQuery)                           *)
(***************************************************************************)
Answered == response.op = "unified_get_gifs"

\* The filters of the request that are non-empty.
FiltersGiven ==
    {f \in {"tag", "anime", "character"} : request[f] # None /\ request[f] # ""}

\* A 400 that returns neither a list nor a record.
Rejected == response.status = 400 /\ response.ids = <<>> /\ response.labels = {}

\* C6 as stated: without a list directive, q together with any of tag, anime,
\* character present in the request, or more than one of the three supplied,
\* is a 400 whatever the store holds.
C6_AsStated ==
    (Answered /\ request.list = None) =>
        /\ (request.q # None /\ (request.tag # None \/ request.anime # None
                                  \/ request.character # None)) => Rejected
        /\ Cardinality(FiltersGiven) > 1 => Rejected

\* C6, amended: without a list directive, q (even empty) together with a
\* non-empty tag, anime or character, or more than one non-empty filter among
\* the three, is a 400 whatever the store holds, with no list or record.
C6_ConflictingFiltersRejected ==
    (Answered /\ request.list = None) =>
        /\ (request.q # None /\ FiltersGiven # {}) => Rejected
        /\ Cardinality(FiltersGiven) > 1 => Rejected

\* C6 witness: q with a non-empty tag was rejected against a store that has
\* rows for both.
C6_Witness ==
    /\ Answered /\ request.list = None
    /\ request.q = "a" /\ request.tag = "t" /\ request.anime = None
    /\ request.character = None /\ request.nsfw = "false"
    /\ response.status = 400
    /\ RowsByTag(gifs, "t", "false") # {}

\* The request gives exactly this filter and nothing else, with a valid nsfw.
OnlyFilter(f) ==
    /\ Answered /\ request.list = None /\ request.q = None
    /\ FiltersGiven = {f}
    /\ NsfwMode(request.nsfw) \in {"false", "true", "only"}

\* C7: a request with only the tag filter that no record matches under the
\* nsfw mode gets 404 without suggestions.
C7_TagMissPlain404 ==
    (OnlyFilter("tag") /\ RowsByTag(gifs, request.tag, NsfwMode(request.nsfw)) = {}) =>
        (response.status = 404 /\ response.labels = {})

\* C8: a request with only the anime (only the character) filter that no
\* record matches under the nsfw mode gets 404 with at most 5 suggestions, all
\* of them anime (character) labels of the store; none when the store has no
\* such label.
C8_MissSuggestsAtMostFive ==
    /\ (OnlyFilter("anime")
          /\ RowsByAnime(gifs, request.anime, NsfwMode(request.nsfw)) = {}) =>
         /\ response.status = 404 /\ response.detail = "suggestions"
         /\ response.labels \subseteq {g.anime : g \in gifs} \ {None}
         /\ Cardinality(response.labels) <= 5
    /\ (OnlyFilter("character")
          /\ RowsByCharacter(gifs, request.character, NsfwMode(request.nsfw)) = {}) =>
         /\ response.status = 404 /\ response.detail = "suggestions"
         /\ response.labels \subseteq UNION {g.characters : g \in gifs}
         /\ Cardinality(response.labels) <= 5

\* C8 witness: an anime miss against a store with more than 5 anime labels
\* came back with exactly 5 suggestions.
C8_Witness ==
    /\ OnlyFilter("anime")
    /\ RowsByAnime(gifs, request.anime, NsfwMode(request.nsfw)) = {}
    /\ Cardinality({g.anime : g \in gifs} \ {None}) > 5
    /\ response.status = 404
    /\ Cardinality(response.labels) = 5

====
